---- MODULE Spec2Model ----
(***************************************************************************)
(* State-machine model of SnakeGamePygame (src/main.py): the game state    *)
(* (snake, food, direction, running, score, high score, style index,       *)
(* ghosting frame history) and the handlers of the event loop run().       *)
(* Rectangles are pygame.Rect values of size UNIT_SIZE x UNIT_SIZE, kept   *)
(* as their top-left pixel corner [x, y].  SCREEN_WIDTH and SCREEN_HEIGHT  *)
(* are fixed at construction to a scaled-down screen (the program's is     *)
(* 800x600): SmallScreen under Spec and SpecFood, StripScreen under        *)
(* SpecStrip.  Every other number is the program's.  Spec takes a handler  *)
(* as one step; SpecFood takes the loop of new_food() one draw at a time.  *)
(***************************************************************************)
EXTENDS Integers, Sequences, FiniteSets, TLC

(* ---------------------------- bounds ----------------------------------- *)
\* The screens explored, in playable cells: a small board the snake can fill,
\* and a one-row strip long enough for the score to pass three style changes.
StripCols == 32
SmallCols == 4
SmallRows == 2
MaxFrames == 6

(* ------------------------ program constants ---------------------------- *)
UNIT_SIZE == 20
BORDER_SIZE == 20
STYLE_CHANGE_SCORE_INTERVAL == 5
max_ghosting_frames == 5
REAL_SCREEN_WIDTH == 800
REAL_SCREEN_HEIGHT == 600

\* A screen of c x r playable cells inside the border.
Screen(c, r) == [w |-> c * UNIT_SIZE + 2 * BORDER_SIZE, h |-> r * UNIT_SIZE + 2 * BORDER_SIZE]

SmallScreen == Screen(SmallCols, SmallRows)
StripScreen == Screen(StripCols, 1)

\* The three CrtStyle bundles, reduced to the ghosting opacity.
crt_styles == << [ghosting_alpha |-> 20], [ghosting_alpha |-> 30], [ghosting_alpha |-> 15] >>

Directions == {"U", "D", "L", "R"}

VARIABLES SCREEN_WIDTH, SCREEN_HEIGHT, snake, food, direction, running, score, high_score,
          current_style_index, ghosting_frames, game_time, running_game, pc,
          event, was_running, ate, last_dir

game == <<snake, food, direction, running, score, high_score, current_style_index>>
screen == <<SCREEN_WIDTH, SCREEN_HEIGHT>>
vars == <<SCREEN_WIDTH, SCREEN_HEIGHT, snake, food, direction, running, score, high_score,
          current_style_index, ghosting_frames, game_time, running_game, pc,
          event, was_running, ate, last_dir>>

(* --------------------------- pygame.Rect ------------------------------- *)
Rect(px, py) == [x |-> px, y |-> py]

\* Rect.colliderect for two UNIT_SIZE squares: the open interiors overlap.
colliderect(a, b) ==
    /\ a.x < b.x + UNIT_SIZE
    /\ a.x + UNIT_SIZE > b.x
    /\ a.y < b.y + UNIT_SIZE
    /\ a.y + UNIT_SIZE > b.y

\* Rect.move(dx, dy)
RectMove(r, dx, dy) == Rect(r.x + dx, r.y + dy)

(* --------------------------- start_game -------------------------------- *)
StartX(w) == (((w \div 2) - BORDER_SIZE) \div UNIT_SIZE) * UNIT_SIZE + BORDER_SIZE
StartY(h) == (((h \div 2) - BORDER_SIZE) \div UNIT_SIZE) * UNIT_SIZE + BORDER_SIZE

StartSnake_Rightward(w, h) ==
    << Rect(StartX(w), StartY(h)),
       Rect(StartX(w) + UNIT_SIZE, StartY(h)),
       Rect(StartX(w) + UNIT_SIZE * 2, StartY(h)) >>

StartSnake(w, h) ==
    << Rect(StartX(w), StartY(h)),
       Rect(StartX(w) - UNIT_SIZE, StartY(h)),
       Rect(StartX(w) - UNIT_SIZE * 2, StartY(h)) >>

(* ---------------------------- new_food --------------------------------- *)
min_x == BORDER_SIZE \div UNIT_SIZE
max_x(w) == (w - BORDER_SIZE - UNIT_SIZE) \div UNIT_SIZE
min_y == BORDER_SIZE \div UNIT_SIZE
max_y(h) == (h - BORDER_SIZE - UNIT_SIZE) \div UNIT_SIZE

\* Every rectangle one draw of the two randint calls can produce.
FoodDraws(w, h) ==
    { Rect(i * UNIT_SIZE, j * UNIT_SIZE) : i \in min_x..max_x(w), j \in min_y..max_y(h) }

OnSnake_HeadOnly(s, r) == colliderect(s[1], r)

OnSnake(s, r) == \E i \in 1..Len(s) : colliderect(s[i], r)

FoodAccepted_Any(s, w, h) == FoodDraws(w, h)

\* The draws that leave the reject-and-resample loop.
FoodAccepted(s, w, h) == { r \in FoodDraws(w, h) : ~OnSnake(s, r) }

(* ------------------------------ move ----------------------------------- *)
NewHead(head, d) ==
    CASE d = "U" -> RectMove(head, 0, -UNIT_SIZE)
      [] d = "D" -> RectMove(head, 0, UNIT_SIZE)
      [] d = "L" -> RectMove(head, -UNIT_SIZE, 0)
      [] d = "R" -> RectMove(head, UNIT_SIZE, 0)
      [] OTHER -> head

Pop(s) == SubSeq(s, 1, Len(s) - 1)

MoveSnake_AlwaysPop(s, d, f) == Pop(<<NewHead(s[1], d)>> \o s)

MoveSnake_NeverPop(s, d, f) == <<NewHead(s[1], d)>> \o s

MoveSnake(s, d, f) ==
    LET grown == <<NewHead(s[1], d)>> \o s
    IN IF ~colliderect(grown[1], f) THEN Pop(grown) ELSE grown

(* ---------------------------- check_food ------------------------------- *)
FoodHit(s, f) == colliderect(s[1], f)

Max(a, b) == IF a >= b THEN a ELSE b

HighScoreAfter_Score(hs, sc) == sc

HighScoreAfter(hs, sc) == Max(hs, sc)

StyleAfter_NoWrap(idx, sc) ==
    IF sc > 0 /\ sc % STYLE_CHANGE_SCORE_INTERVAL = 0 THEN idx + 1 ELSE idx

StyleAfter(idx, sc) ==
    IF sc > 0 /\ sc % STYLE_CHANGE_SCORE_INTERVAL = 0
    THEN (idx + 1) % Len(crt_styles)
    ELSE idx

(* -------------------------- check_collisions --------------------------- *)
WallHit(head, w, h) ==
    \/ head.x < BORDER_SIZE
    \/ head.x + UNIT_SIZE > w - BORDER_SIZE
    \/ head.y < BORDER_SIZE
    \/ head.y + UNIT_SIZE > h - BORDER_SIZE

SelfHit_Never(s) == FALSE

SelfHit(s) == \E i \in 2..Len(s) : colliderect(s[1], s[i])

RunningAfter_WallOnly(s, r, w, h) == IF WallHit(s[1], w, h) THEN FALSE ELSE r

RunningAfter(s, r, w, h) == IF WallHit(s[1], w, h) \/ SelfHit(s) THEN FALSE ELSE r

(* ------------------------- direction requests -------------------------- *)
Opposite(d) ==
    CASE d = "L" -> "R"
      [] d = "R" -> "L"
      [] d = "U" -> "D"
      [] d = "D" -> "U"
      [] OTHER -> "none"

SetDirection_NoGuard(cur, d) == d

\* The guard of one KEYDOWN branch: if self.direction != <reverse>: self.direction = <d>
SetDirection(cur, d) == IF cur # Opposite(d) THEN d ELSE cur

(* ------------------------------- run ----------------------------------- *)
TickEnabled_Always(r) == TRUE

\* if self.running: before move(), check_food(), check_collisions()
TickEnabled(r) == r

\* if not self.running: before start_game()
RestartEnabled(r) == ~r

(* ------------------------------- draw ---------------------------------- *)
\* frame_surface.copy(): the frame composed at time t, a fresh opaque surface.
\* An opacity is kept exactly, as the pair <<numerator, denominator>>.
Frame(t) == [time |-> t, alpha |-> <<255, 1>>]

PushFrame(frames, f) ==
    LET appended == Append(frames, f)
    IN IF Len(appended) > max_ghosting_frames THEN Tail(appended) ELSE appended

\* ghosting_alpha * (1 - (i / len(self.ghosting_frames))), i counted from 0
GhostAlpha(i, n, a) == <<a * (n - i), n>>

\* The enumerate loop of draw(): ghost_frame.set_alpha(alpha) on every buffered frame.
SetAlphas(frames, a) ==
    [k \in 1..Len(frames) |-> [frames[k] EXCEPT !.alpha = GhostAlpha(k - 1, Len(frames), a)]]

(* ------------------------------ states --------------------------------- *)
\* __init__ followed by start_game(): the state when run() is entered.
Constructed(b) ==
    /\ SCREEN_WIDTH = b.w
    /\ SCREEN_HEIGHT = b.h
    /\ snake = StartSnake(SCREEN_WIDTH, SCREEN_HEIGHT)
    /\ direction = "R"
    /\ score = 0
    /\ high_score = 0
    /\ current_style_index = 0
    /\ food \in FoodAccepted(snake, SCREEN_WIDTH, SCREEN_HEIGHT)
    /\ running = TRUE
    /\ ghosting_frames = << >>
    /\ game_time = 0
    /\ running_game = TRUE
    /\ pc = "events"
    /\ event = "start"
    /\ was_running = FALSE
    /\ ate = FALSE
    /\ last_dir = "none"

Init == Constructed(SmallScreen)

InitStrip == Constructed(StripScreen)

Handling == running_game /\ pc = "events"

KeyDown(k, d) ==
    /\ Handling
    /\ direction' = SetDirection(direction, d)
    /\ event' = k
    /\ was_running' = running
    /\ ate' = FALSE
    /\ UNCHANGED <<screen, snake, food, running, score, high_score, current_style_index,
                   ghosting_frames, game_time, running_game, pc, last_dir>>

K_LEFT == KeyDown("K_LEFT", "L")
K_RIGHT == KeyDown("K_RIGHT", "R")
K_UP == KeyDown("K_UP", "U")
K_DOWN == KeyDown("K_DOWN", "D")

Restart_ClearsHigh ==
    /\ Handling
    /\ RestartEnabled(running)
    /\ snake' = StartSnake(SCREEN_WIDTH, SCREEN_HEIGHT)
    /\ direction' = "R"
    /\ score' = 0
    /\ current_style_index' = 0
    /\ food' \in FoodAccepted(snake', SCREEN_WIDTH, SCREEN_HEIGHT)
    /\ running' = TRUE
    /\ ghosting_frames' = << >>
    /\ event' = "K_SPACE"
    /\ was_running' = running
    /\ ate' = FALSE
    /\ last_dir' = "none"
    /\ game_time' = 0
    /\ high_score' = 0
    /\ UNCHANGED <<screen, running_game, pc>>

\* K_SPACE while the game is over: start_game().
Restart ==
    /\ Handling
    /\ RestartEnabled(running)
    /\ snake' = StartSnake(SCREEN_WIDTH, SCREEN_HEIGHT)
    /\ direction' = "R"
    /\ score' = 0
    /\ current_style_index' = 0
    /\ food' \in FoodAccepted(snake', SCREEN_WIDTH, SCREEN_HEIGHT)
    /\ running' = TRUE
    /\ ghosting_frames' = << >>
    /\ event' = "K_SPACE"
    /\ was_running' = running
    /\ ate' = FALSE
    /\ last_dir' = "none"
    /\ game_time' = 0
    /\ UNCHANGED <<screen, high_score, running_game, pc>>

\* K_SPACE while the game is running: the handler's guard fails.
SpaceIgnored ==
    /\ Handling
    /\ ~RestartEnabled(running)
    /\ event' = "K_SPACE"
    /\ was_running' = running
    /\ ate' = FALSE
    /\ UNCHANGED <<screen, game, ghosting_frames, game_time, running_game, pc, last_dir>>

K_SPACE == Restart \/ SpaceIgnored

\* GAME_UPDATE while running: move(); check_food(); check_collisions().
Tick ==
    /\ Handling
    /\ TickEnabled(running)
    /\ LET moved == MoveSnake(snake, direction, food)
           eats == FoodHit(moved, food)
       IN /\ snake' = moved
          /\ ate' = eats
          /\ IF eats
             THEN /\ score' = score + 1
                  /\ high_score' = HighScoreAfter(high_score, score')
                  /\ current_style_index' = StyleAfter(current_style_index, score')
                  /\ IF FoodAccepted(moved, SCREEN_WIDTH, SCREEN_HEIGHT) # {}
                     THEN /\ food' \in FoodAccepted(moved, SCREEN_WIDTH, SCREEN_HEIGHT)
                          /\ running' = RunningAfter(moved, running, SCREEN_WIDTH, SCREEN_HEIGHT)
                          /\ pc' = pc
                     ELSE \* no draw is ever accepted: new_food() does not return
                          /\ food' \in FoodDraws(SCREEN_WIDTH, SCREEN_HEIGHT)
                          /\ running' = running
                          /\ pc' = "new_food"
             ELSE /\ running' = RunningAfter(moved, running, SCREEN_WIDTH, SCREEN_HEIGHT)
                  /\ UNCHANGED <<score, high_score, current_style_index, food, pc>>
    /\ event' = "GAME_UPDATE"
    /\ was_running' = running
    /\ last_dir' = direction
    /\ UNCHANGED <<screen, direction, ghosting_frames, game_time, running_game>>

\* GAME_UPDATE while the game is over: the handler's guard fails.
TickIgnored ==
    /\ Handling
    /\ ~TickEnabled(running)
    /\ event' = "GAME_UPDATE"
    /\ was_running' = running
    /\ ate' = FALSE
    /\ UNCHANGED <<screen, game, ghosting_frames, game_time, running_game, pc, last_dir>>

GAME_UPDATE == Tick \/ TickIgnored

\* One more rejected draw of the loop in new_food(): the rectangle is on the snake.
NewFoodRetry ==
    /\ running_game
    /\ pc \in {"new_food", "new_food_start"}
    /\ food' \in { r \in FoodDraws(SCREEN_WIDTH, SCREEN_HEIGHT) : OnSnake(snake, r) }
    /\ UNCHANGED <<screen, snake, direction, running, score, high_score, current_style_index,
                   ghosting_frames, game_time, running_game, pc,
                   event, was_running, ate, last_dir>>

\* draw(): the composed frame enters the history; the game state is only read.
\* It ends every iteration of the loop of run(), the one that saw QUIT included.
Draw ==
    /\ pc \in {"events", "quit"}
    /\ game_time < MaxFrames
    /\ game_time' = game_time + 1
    /\ ghosting_frames' =
           SetAlphas(PushFrame(ghosting_frames, Frame(game_time')),
                     crt_styles[current_style_index + 1].ghosting_alpha)
    /\ pc' = IF running_game THEN pc ELSE "done"
    /\ event' = "draw"
    /\ was_running' = running
    /\ ate' = FALSE
    /\ UNCHANGED <<screen, game, running_game, last_dir>>

\* pygame.QUIT, taken as the last event of its batch: the loop of run() ends
\* after the draw() of this iteration.
QUIT ==
    /\ Handling
    /\ running_game' = FALSE
    /\ pc' = "quit"
    /\ event' = "QUIT"
    /\ was_running' = running
    /\ ate' = FALSE
    /\ UNCHANGED <<screen, game, ghosting_frames, game_time, last_dir>>

Next ==
    \/ K_LEFT
    \/ K_RIGHT
    \/ K_UP
    \/ K_DOWN
    \/ K_SPACE
    \/ GAME_UPDATE
    \/ NewFoodRetry
    \/ Draw
    \/ QUIT

Spec == Init /\ [][Next]_vars

\* The one-row strip with the player holding course between restarts.
NextStrip ==
    \/ K_SPACE
    \/ GAME_UPDATE
    \/ Draw

SpecStrip == InitStrip /\ [][NextStrip]_vars

(* ------------- the loop of new_food(), one draw per step ---------------- *)
\* GAME_UPDATE while running, up to the call of new_food() in check_food(); a
\* tick that eats nothing runs to its end.
TickCall ==
    /\ Handling
    /\ TickEnabled(running)
    /\ LET moved == MoveSnake(snake, direction, food)
           eats == FoodHit(moved, food)
       IN /\ snake' = moved
          /\ ate' = eats
          /\ IF eats
             THEN /\ score' = score + 1
                  /\ high_score' = HighScoreAfter(high_score, score')
                  /\ current_style_index' = StyleAfter(current_style_index, score')
                  /\ pc' = "new_food"
                  /\ UNCHANGED <<food, running>>
             ELSE /\ running' = RunningAfter(moved, running, SCREEN_WIDTH, SCREEN_HEIGHT)
                  /\ UNCHANGED <<score, high_score, current_style_index, food, pc>>
    /\ event' = "GAME_UPDATE"
    /\ was_running' = running
    /\ last_dir' = direction
    /\ UNCHANGED <<screen, direction, ghosting_frames, game_time, running_game>>

\* An accepted draw in the call made by check_food(): new_food() returns and
\* check_collisions() ends the tick.
NewFoodReturnsToTick ==
    /\ running_game
    /\ pc = "new_food"
    /\ food' \in { r \in FoodDraws(SCREEN_WIDTH, SCREEN_HEIGHT) : ~OnSnake(snake, r) }
    /\ running' = RunningAfter(snake, running, SCREEN_WIDTH, SCREEN_HEIGHT)
    /\ pc' = "events"
    /\ UNCHANGED <<screen, snake, direction, score, high_score, current_style_index,
                   ghosting_frames, game_time, running_game,
                   event, was_running, ate, last_dir>>

\* K_SPACE while the game is over, up to the call of new_food() in start_game().
RestartCall ==
    /\ Handling
    /\ RestartEnabled(running)
    /\ snake' = StartSnake(SCREEN_WIDTH, SCREEN_HEIGHT)
    /\ direction' = "R"
    /\ score' = 0
    /\ current_style_index' = 0
    /\ pc' = "new_food_start"
    /\ event' = "K_SPACE"
    /\ was_running' = running
    /\ ate' = FALSE
    /\ last_dir' = "none"
    /\ UNCHANGED <<screen, food, running, high_score, ghosting_frames, game_time, running_game>>

\* An accepted draw in the call made by start_game(): the rest of start_game().
NewFoodReturnsToStart ==
    /\ running_game
    /\ pc = "new_food_start"
    /\ food' \in { r \in FoodDraws(SCREEN_WIDTH, SCREEN_HEIGHT) : ~OnSnake(snake, r) }
    /\ running' = TRUE
    /\ game_time' = 0
    /\ ghosting_frames' = << >>
    /\ pc' = "events"
    /\ UNCHANGED <<screen, snake, direction, score, high_score, current_style_index,
                   running_game, event, was_running, ate, last_dir>>

NextFood ==
    \/ K_LEFT
    \/ K_RIGHT
    \/ K_UP
    \/ K_DOWN
    \/ RestartCall
    \/ SpaceIgnored
    \/ TickCall
    \/ TickIgnored
    \/ NewFoodRetry
    \/ NewFoodReturnsToTick
    \/ NewFoodReturnsToStart

\* Fair random draws: a draw that stays possible is eventually made.
SpecFood ==
    /\ Init
    /\ [][NextFood]_vars
    /\ WF_vars(NewFoodReturnsToTick)
    /\ WF_vars(NewFoodReturnsToStart)

(* ------------------------------ properties ----------------------------- *)
\* A step in which the GAME_UPDATE handler ran its body (the game was Running).
RunningTick == Handling /\ running /\ event' = "GAME_UPDATE"

\* A step in which K_SPACE was handled in GameOver, that is, start_game() ran.
RestartStep == Handling /\ ~running /\ event' = "K_SPACE"

\* The state is the one some call of start_game() has just left.
AfterReset == event = "start" \/ (event = "K_SPACE" /\ ~was_running)

\* C1: on every tick executed while Running, running becomes false if and only
\* if the new head lies outside the playable rectangle (left < border, right >
\* width - border, top < border, bottom > height - border) or coincides with
\* another segment of the updated snake; a head in the leftmost playable column
\* moving Left ends the game on that tick.
C1_TickEndsGameIffCollision ==
    [][RunningTick =>
        LET head == snake'[1]
            outside == \/ head.x < BORDER_SIZE
                       \/ head.x + UNIT_SIZE > SCREEN_WIDTH - BORDER_SIZE
                       \/ head.y < BORDER_SIZE
                       \/ head.y + UNIT_SIZE > SCREEN_HEIGHT - BORDER_SIZE
            overlap == \E i \in 2..Len(snake') : snake'[i] = head
        IN /\ (~running') <=> (outside \/ overlap)
           /\ (snake[1].x = BORDER_SIZE /\ direction = "L") => ~running'
    ]_vars

C1_Witness ==
    /\ event = "GAME_UPDATE" /\ was_running /\ ~running
    /\ last_dir = "L"
    /\ snake[1].x = BORDER_SIZE - UNIT_SIZE

\* C2: on every tick executed while Running, if the new head lands on the food
\* cell the snake length and the score both increase by exactly 1; otherwise both
\* are unchanged (head inserted, tail removed).
C2_GrowthOnlyOnFood ==
    [][RunningTick =>
        IF snake'[1] = food
        THEN Len(snake') = Len(snake) + 1 /\ score' = score + 1
        ELSE /\ Len(snake') = Len(snake)
             /\ score' = score
             /\ \A i \in 2..Len(snake') : snake'[i] = snake[i - 1]
    ]_vars

C2_Witness ==
    /\ event = "GAME_UPDATE" /\ was_running /\ ate
    /\ score = 2
    /\ Len(snake) = 5

\* C3: immediately after every new_food call that returns (the one of reset and
\* the one of every eating tick), the food cell is occupied by no segment of the
\* snake, the new head included.
C3_FoodOffSnakeAfterSpawn ==
    (AfterReset \/ (event = "GAME_UPDATE" /\ was_running /\ ate /\ pc = "events"))
        => \A i \in 1..Len(snake) : snake[i] # food

C3_Witness ==
    /\ event = "GAME_UPDATE" /\ was_running /\ ate /\ pc = "events"
    /\ Len(snake) = 7
    /\ \A i \in 1..Len(snake) : snake[i] # food

\* C4: once running is false every timer tick leaves snake, food, score, high
\* score and style index unchanged; running becomes true again only through the
\* restart key handled in GameOver; a restart key press while Running changes
\* nothing.
C4_GameOverFrozen ==
    [][ /\ (~running /\ event' = "GAME_UPDATE") =>
              UNCHANGED <<snake, food, score, high_score, current_style_index>>
        /\ (~running /\ running') => (event' = "K_SPACE" /\ AfterReset')
        /\ (running /\ event' = "K_SPACE") => UNCHANGED <<game, ghosting_frames>>
    ]_vars

C4_Witness ==
    /\ event = "GAME_UPDATE" /\ ~was_running /\ ~running
    /\ score > 0

\* C5: a direction request d changes direction to d if and only if d is not the
\* exact reverse of the current direction (Left/Right, Up/Down); a request for
\* the exact reverse leaves direction unchanged.
C5_ReverseRequestIgnored ==
    [][ /\ event' = "K_LEFT" => direction' = (IF direction = "R" THEN "R" ELSE "L")
        /\ event' = "K_RIGHT" => direction' = (IF direction = "L" THEN "L" ELSE "R")
        /\ event' = "K_UP" => direction' = (IF direction = "D" THEN "D" ELSE "U")
        /\ event' = "K_DOWN" => direction' = (IF direction = "U" THEN "U" ELSE "D")
    ]_vars

C5_Witness ==
    /\ event = "K_DOWN" /\ direction = "U"
    /\ running

\* C6: for any key presses arriving between two consecutive ticks, the direction
\* used by a tick is never the reverse of the direction used by the preceding
\* tick, so the head never moves back onto the segment directly behind it.
C6_NoReversalBetweenTicks ==
    [][RunningTick =>
        /\ (last_dir = "L") => direction # "R"
        /\ (last_dir = "R") => direction # "L"
        /\ (last_dir = "U") => direction # "D"
        /\ (last_dir = "D") => direction # "U"
        /\ snake'[1] # snake[2]
    ]_vars

\* C7: on an eating tick the style index advances by exactly one modulo the
\* number of styles (3) when the new score is a positive multiple of 5 and is
\* unchanged on every other score-increasing tick; from a reset the index is 1
\* when the score reaches 5, 2 at 10, and 0 at 15.
C7_StyleStep ==
    (RunningTick /\ score' # score) =>
        /\ score' = score + 1
        /\ current_style_index' =
               IF score' \in {5, 10, 15, 20}
               THEN (IF current_style_index = 2 THEN 0 ELSE current_style_index + 1)
               ELSE current_style_index

C7_StyleAtScore ==
    /\ score = 5 => current_style_index = 1
    /\ score = 10 => current_style_index = 2
    /\ score = 15 => current_style_index = 0

C7_StyleRotation == [][C7_StyleStep]_vars /\ []C7_StyleAtScore

C7_Witness ==
    /\ event = "GAME_UPDATE" /\ was_running /\ ate
    /\ score = 15
    /\ current_style_index = 0

\* C8: after every reset (the initial start and every restart) the snake is
\* exactly 3 segments, head at the center grid cell followed by its two leftward
\* neighbours ((400,300), (380,300), (360,300) on the 800x600 screen), direction
\* is Right, score 0, style index 0, running true, the ghost-frame history empty
\* and the food on a cell not on the snake.
C8_CenterCell(r, w, h) ==
    /\ (r.x - BORDER_SIZE) % UNIT_SIZE = 0
    /\ (r.y - BORDER_SIZE) % UNIT_SIZE = 0
    /\ r.x <= w \div 2 /\ w \div 2 < r.x + UNIT_SIZE
    /\ r.y <= h \div 2 /\ h \div 2 < r.y + UNIT_SIZE

C8_ResetState ==
    AfterReset =>
        /\ Len(snake) = 3
        /\ C8_CenterCell(snake[1], SCREEN_WIDTH, SCREEN_HEIGHT)
        /\ snake[2] = [x |-> snake[1].x - UNIT_SIZE, y |-> snake[1].y]
        /\ snake[3] = [x |-> snake[1].x - 2 * UNIT_SIZE, y |-> snake[1].y]
        /\ direction = "R"
        /\ score = 0
        /\ current_style_index = 0
        /\ running
        /\ ghosting_frames = << >>
        /\ \A i \in 1..3 : snake[i] # food
        /\ StartSnake(REAL_SCREEN_WIDTH, REAL_SCREEN_HEIGHT) =
               << [x |-> 400, y |-> 300], [x |-> 380, y |-> 300], [x |-> 360, y |-> 300] >>

C8_Witness ==
    /\ event = "K_SPACE" /\ ~was_running /\ running
    /\ high_score >= 2
    /\ game_time = 0

\* C9 as stated: across a restart the high score and the style index keep the
\* values they had right before it.
C9_HighScoreAndStylePersist ==
    [][RestartStep =>
        /\ high_score' = high_score
        /\ current_style_index' = current_style_index
    ]_vars

\* C9 amended: across a restart only the high score keeps its value; the style
\* index returns to 0 together with the rest of the session (3-segment snake,
\* direction Right, score 0, running true, empty frame history, fresh food).
C9_OnlyHighScorePersists ==
    [][RestartStep =>
        /\ high_score' = high_score
        /\ current_style_index' = 0
        /\ Len(snake') = 3
        /\ direction' = "R"
        /\ score' = 0
        /\ running'
        /\ ghosting_frames' = << >>
        /\ \A i \in 1..3 : snake'[i] # food'
    ]_vars

C9_Witness ==
    /\ event = "K_SPACE" /\ ~was_running /\ running
    /\ high_score >= 10
    /\ current_style_index = 0

\* C10: the high score never decreases over any sequence of ticks, direction
\* changes, renders and restarts; it is only ever raised, to the current score,
\* on an eating tick.
C10_HighScoreMonotone ==
    [][ /\ high_score' >= high_score
        /\ high_score' # high_score =>
              /\ RunningTick
              /\ snake'[1] = food
              /\ score' = score + 1
              /\ high_score' = score'
    ]_vars

C10_Witness ==
    /\ event = "GAME_UPDATE" /\ was_running /\ ate
    /\ score = 2
    /\ high_score = 3

\* C11: in every reachable state in which running is true, every snake segment
\* is aligned to the unit grid and no two distinct segments occupy the same
\* cell; two segments coincide only in states where running is false.
C11_AlignedAndDisjointWhileRunning ==
    running =>
        /\ \A i \in 1..Len(snake) :
              snake[i].x % UNIT_SIZE = 0 /\ snake[i].y % UNIT_SIZE = 0
        /\ \A i, j \in 1..Len(snake) : i # j => snake[i] # snake[j]

C11_Witness ==
    /\ event = "GAME_UPDATE" /\ was_running /\ running
    /\ Len(snake) = 6
    /\ last_dir = "L"
    /\ snake[1].y # snake[Len(snake)].y

\* C14: self-collision is evaluated against the segment list as updated by the
\* move of the same tick: on a non-eating tick a head that moves into the cell
\* the tail occupied just before the tick, into no other segment and inside the
\* bounds, does not end the game.
C14_TailCellIsFree ==
    [][(/\ RunningTick
        /\ snake'[1] # food
        /\ snake'[1] = snake[Len(snake)]
        /\ \A i \in 1..(Len(snake) - 1) : snake[i] # snake'[1]
        /\ snake'[1].x >= BORDER_SIZE
        /\ snake'[1].x + UNIT_SIZE <= SCREEN_WIDTH - BORDER_SIZE
        /\ snake'[1].y >= BORDER_SIZE
        /\ snake'[1].y + UNIT_SIZE <= SCREEN_HEIGHT - BORDER_SIZE)
       => (running' /\ Len(snake') = Len(snake))
    ]_vars

\* The snake circles the 2x2 block in the bottom-right corner of the board: the
\* segment before the tail has no other free neighbour than the cell the head
\* has just entered, so that cell is the one the tail left on this tick.
C14_Witness ==
    /\ event = "GAME_UPDATE" /\ was_running /\ running /\ ~ate
    /\ Len(snake) = 4
    /\ snake[4] = [x |-> SCREEN_WIDTH - BORDER_SIZE - UNIT_SIZE,
                   y |-> SCREEN_HEIGHT - BORDER_SIZE - UNIT_SIZE]
    /\ snake[3] = [x |-> snake[4].x, y |-> snake[4].y - UNIT_SIZE]
    /\ snake[2] = [x |-> snake[4].x - UNIT_SIZE, y |-> snake[4].y - UNIT_SIZE]
    /\ snake[1] = [x |-> snake[4].x - UNIT_SIZE, y |-> snake[4].y]
    /\ SCREEN_HEIGHT = 2 * UNIT_SIZE + 2 * BORDER_SIZE

\* C13: in every render, after the composed frame is pushed into the history,
\* the ghost opacity given to a buffered frame decreases with its age: of two
\* buffered frames the more recent one gets the higher alpha, so the most recent
\* gets the highest and the oldest the lowest.
C13_OpacityDecreasesWithAge ==
    event = "draw" =>
        \A i, j \in 1..Len(ghosting_frames) :
            ghosting_frames[i].time < ghosting_frames[j].time =>
                ghosting_frames[i].alpha[1] * ghosting_frames[j].alpha[2]
                    < ghosting_frames[j].alpha[1] * ghosting_frames[i].alpha[2]

\* C12: the reject-and-resample loop of new_food eventually returns, under fair
\* random draws, if and only if at least one playable grid cell is not occupied
\* by the snake; when an eating tick makes the snake cover every playable cell,
\* new_food never returns: the tick never completes and the game state stays as
\* it was when the loop was entered.
C12_InNewFood == pc \in {"new_food", "new_food_start"}

C12_FreeCells ==
    { r \in FoodDraws(SCREEN_WIDTH, SCREEN_HEIGHT) : \A i \in 1..Len(snake) : snake[i] # r }

C12_ReturnsIfFree == (C12_InNewFood /\ C12_FreeCells # {}) ~> ~C12_InNewFood

C12_StuckIfFull ==
    [][(C12_InNewFood /\ C12_FreeCells = {}) =>
          /\ C12_InNewFood'
          /\ UNCHANGED <<snake, direction, running, score, high_score, current_style_index,
                         event, was_running, ghosting_frames>>
    ]_vars

C12_NewFoodReturnsIffFreeCell == C12_ReturnsIfFree /\ C12_StuckIfFull

C12_Witness ==
    /\ pc = "new_food"
    /\ C12_FreeCells = {}
    /\ event = "GAME_UPDATE" /\ was_running /\ ate
    /\ food # snake[1]

====
